---- MODULE Spec2Model ----
(***************************************************************************)
(* Model of the two components of the repository:                          *)
(*   CustomAPI/custom_api.py      the streaming connector                  *)
(*                                (CustomAPIStreamReader) and its progress *)
(*                                document;                                *)
(*   databricks-api/api_handler.py  the REST client (request, RepoHandler, *)
(*                                DbsqlHandler).                           *)
(* The HTTP peers (progress store, row source, repos API, query-history    *)
(* API) are the environment: their answers are inputs of the actions.      *)
(* The progress store answers a GET with its document and applies a PUT;   *)
(* the connector checks no status, so it has no failure branch to model.   *)
(* custom_api.py leaves several names unbound (host, path, token, json,    *)
(* self.url, self.api_url, RangePartition, the base classes of lines       *)
(* 59-73); the methods are modelled as written, with those names bound to  *)
(* the configuration they stand for.                                       *)
(***************************************************************************)
EXTENDS Integers, Sequences, FiniteSets, TLC

VARIABLES
    \* ---- CustomAPI/custom_api.py ----
    store,            \* the remote progress document
    alive,            \* alive[i]: instance i has been constructed
    current,          \* self.current of instance i
    rows_per_batch,   \* self.rows_per_batch of instance i
    loaded,           \* history: the progress document instance i was built from
    calls,            \* history: number of latestOffset calls of instance i
    uncommitted,      \* history: sum of the steps since the last load/commit
    call,             \* the last connector call: method, instance, arguments
    ret,              \* what that call returned
    http,             \* the HTTP requests that call issued, in order
    stored_before,    \* history: the store's value before the last call
    \* ---- the host runtime driving one connector instance ----
    hpc,              \* the host's next lifecycle callback
    hstart,           \* start offset of the batch in progress
    hend,             \* end offset of the batch in progress
    hparts,           \* partitions planned for the batch in progress
    \* ---- databricks-api/api_handler.py, RepoHandler ----
    details,          \* self.details
    repo_call,        \* the last RepoHandler call and its argument
    repo_reqs,        \* the requests that call sent
    repo_exc,         \* the exception that call raised, "none" if it returned
    details_before,   \* history: self.details before the last call
    \* ---- databricks-api/api_handler.py, DbsqlHandler.list_query_history ----
    pages,            \* the API's answers so far, one per request, in order
    sql_pc,           \* "loop", "done" or "raised"
    body,             \* the request body dict
    has_next_page,
    page_token,       \* [alias, tok]: alias = still the list bound at line 177
    queries,
    sql_reqs          \* the bodies sent so far, in order

conn_vars == <<store, alive, current, rows_per_batch, loaded, calls,
               uncommitted, call, ret, http, stored_before>>
host_vars == <<hpc, hstart, hend, hparts>>
repo_vars == <<details, repo_call, repo_reqs, repo_exc, details_before>>
sql_vars  == <<pages, sql_pc, body, has_next_page, page_token, queries, sql_reqs>>
vars == <<conn_vars, host_vars, repo_vars, sql_vars>>

----------------------------------------------------------------------------
(* Bounds *)

MaxStored == 2     \* largest `current` found in the progress document
MaxBatch  == 2     \* largest rows_per_batch given as an option
MaxCalls  == 2     \* latestOffset calls per instance
MaxOffset == 2     \* largest offset handed to partitions / read / commit
MaxRows   == 2     \* longest JSON array the row source answers with

(* Program constants *)

DefaultRowsPerBatch == 10

----------------------------------------------------------------------------
(* CustomAPI/custom_api.py : CustomAPIStreamReader *)

Insts == {1, 2}

\* The progress document: {} or {"current": n}.
Docs == {[present |-> FALSE, current |-> 0]}
        \cup {[present |-> TRUE, current |-> n] : n \in 0..MaxStored}

\* options: the rows_per_batch option, given or not.
Options == {[given |-> FALSE, value |-> 0]}
           \cup {[given |-> TRUE, value |-> n] : n \in 1..MaxBatch}

\* options.get("rows_per_batch", 10)
options_get(opt, default) == IF opt.given THEN opt.value ELSE default

\* response.json().get('current', 0)
load_progress(doc) == IF doc.present THEN doc.current ELSE 0

\* json.dumps({"current": self.current}), sent by PUT ...?overwrite=true
save_progress(cur) ==
    [method |-> "PUT", target |-> "progress", overwrite |-> TRUE,
     start |-> 0, limit |-> 0, data |-> [current |-> cur]]

\* requests.get(self.url, headers=headers) of _load_progress
load_request ==
    [method |-> "GET", target |-> "progress", overwrite |-> FALSE,
     start |-> 0, limit |-> 0, data |-> [current |-> 0]]

\* requests.get(self.api_url, params={"_start": start, "_limit": rows_per_batch})
read_request(start, limit) ==
    [method |-> "GET", target |-> "api", overwrite |-> FALSE,
     start |-> start, limit |-> limit, data |-> [current |-> 0]]

\* The progress store applying a PUT with overwrite=true.
store_put(req) == [present |-> TRUE, current |-> req.data.current]

\* RangePartition(start, end): the pair read() takes apart again.
RangePartition(s, e) == [start |-> s, end |-> e]

\* The elements of the row source's JSON array.
Elements == [postId : {7}, id : 1..2, name : {"n"}, email : {"e"}, body : {"b"}]

RECURSIVE SeqsUpTo(_, _)
SeqsUpTo(S, n) ==
    IF n = 0 THEN {<<>>}
    ELSE LET shorter == SeqsUpTo(S, n - 1)
         IN  shorter \cup {Append(s, x) : s \in {t \in shorter : Len(t) = n - 1}, x \in S}

Responses == SeqsUpTo(Elements, MaxRows)

\* yield (r['id'], r['name'], r['email'], r['body'])
row_of(r) == <<r.id, r.name, r.email, r.body>>

\* for r in response.json(): yield ...
rows_of(resp) == [k \in 1..Len(resp) |-> row_of(resp[k])]

Call(op, i, s, e) == [op |-> op, inst |-> i, start |-> s, end |-> e]

\* construct without the load: the cursor starts at 0 whatever is stored.
construct_no_load(i, opt) ==
    /\ ~alive[i]
    /\ alive' = [alive EXCEPT ![i] = TRUE]
    /\ rows_per_batch' =
           [rows_per_batch EXCEPT ![i] = options_get(opt, DefaultRowsPerBatch)]
    /\ current' = [current EXCEPT ![i] = 0]
    /\ loaded' = [loaded EXCEPT ![i] = store]
    /\ uncommitted' = [uncommitted EXCEPT ![i] = 0]
    /\ call' = Call("construct", i, 0, 0)
    /\ ret' = <<>>
    /\ http' = <<load_request>>
    /\ stored_before' = store
    /\ UNCHANGED <<store, calls>>

\* __init__, ending with self._load_progress()
construct(i, opt) ==
    /\ ~alive[i]
    /\ alive' = [alive EXCEPT ![i] = TRUE]
    /\ rows_per_batch' =
           [rows_per_batch EXCEPT ![i] = options_get(opt, DefaultRowsPerBatch)]
    /\ current' = [current EXCEPT ![i] = load_progress(store)]
    /\ loaded' = [loaded EXCEPT ![i] = store]
    /\ uncommitted' = [uncommitted EXCEPT ![i] = 0]
    /\ call' = Call("construct", i, 0, 0)
    /\ ret' = <<>>
    /\ http' = <<load_request>>
    /\ stored_before' = store
    /\ UNCHANGED <<store, calls>>

initialOffset(i) ==
    /\ alive[i]
    /\ call' = Call("initialOffset", i, 0, 0)
    /\ ret' = [offset |-> 0]
    /\ http' = <<>>
    /\ stored_before' = store
    /\ UNCHANGED <<store, alive, current, rows_per_batch, loaded, calls,
                   uncommitted>>

\* latestOffset with `=` for `+=`.
latestOffset_assign(i) ==
    /\ alive[i]
    /\ calls[i] < MaxCalls
    /\ current' = [current EXCEPT ![i] = rows_per_batch[i]]
    /\ calls' = [calls EXCEPT ![i] = calls[i] + 1]
    /\ uncommitted' = [uncommitted EXCEPT ![i] = uncommitted[i] + rows_per_batch[i]]
    /\ call' = Call("latestOffset", i, 0, 0)
    /\ ret' = [offset |-> current'[i]]
    /\ http' = <<>>
    /\ stored_before' = store
    /\ UNCHANGED <<store, alive, rows_per_batch, loaded>>

latestOffset(i) ==
    /\ alive[i]
    /\ calls[i] < MaxCalls
    /\ current' = [current EXCEPT ![i] = current[i] + rows_per_batch[i]]
    /\ calls' = [calls EXCEPT ![i] = calls[i] + 1]
    /\ uncommitted' = [uncommitted EXCEPT ![i] = uncommitted[i] + rows_per_batch[i]]
    /\ call' = Call("latestOffset", i, 0, 0)
    /\ ret' = [offset |-> current'[i]]
    /\ http' = <<>>
    /\ stored_before' = store
    /\ UNCHANGED <<store, alive, rows_per_batch, loaded>>

\* partitions with the two offsets exchanged.
partitions_swapped(i, s, e) ==
    /\ alive[i]
    /\ call' = Call("partitions", i, s.offset, e.offset)
    /\ ret' = <<RangePartition(e.offset, s.offset)>>
    /\ http' = <<>>
    /\ stored_before' = store
    /\ UNCHANGED <<store, alive, current, rows_per_batch, loaded, calls,
                   uncommitted>>

partitions(i, s, e) ==
    /\ alive[i]
    /\ call' = Call("partitions", i, s.offset, e.offset)
    /\ ret' = <<RangePartition(s.offset, e.offset)>>
    /\ http' = <<>>
    /\ stored_before' = store
    /\ UNCHANGED <<store, alive, current, rows_per_batch, loaded, calls,
                   uncommitted>>

\* commit persisting its argument instead of the cursor.
commit_end(i, e) ==
    /\ alive[i]
    /\ call' = Call("commit", i, 0, e.offset)
    /\ ret' = <<>>
    /\ http' = <<save_progress(e.offset)>>
    /\ store' = store_put(save_progress(e.offset))
    /\ uncommitted' = [uncommitted EXCEPT ![i] = 0]
    /\ stored_before' = store
    /\ UNCHANGED <<alive, current, rows_per_batch, loaded, calls>>

\* commit as a conditional write: a smaller cursor does not replace a larger
\* stored value.
commit_conditional(i, e) ==
    /\ alive[i]
    /\ call' = Call("commit", i, 0, e.offset)
    /\ ret' = <<>>
    /\ http' = <<save_progress(current[i])>>
    /\ store' = IF store.present /\ store.current > current[i]
                THEN store
                ELSE store_put(save_progress(current[i]))
    /\ uncommitted' = [uncommitted EXCEPT ![i] = 0]
    /\ stored_before' = store
    /\ UNCHANGED <<alive, current, rows_per_batch, loaded, calls>>

commit(i, e) ==
    /\ alive[i]
    /\ call' = Call("commit", i, 0, e.offset)
    /\ ret' = <<>>
    /\ http' = <<save_progress(current[i])>>
    /\ store' = store_put(save_progress(current[i]))
    /\ uncommitted' = [uncommitted EXCEPT ![i] = 0]
    /\ stored_before' = store
    /\ UNCHANGED <<alive, current, rows_per_batch, loaded, calls>>

\* read asking for the width of the partition instead of rows_per_batch.
read_limit_by_range(i, p, resp) ==
    /\ alive[i]
    /\ call' = Call("read", i, p.start, p.end)
    /\ http' = <<read_request(p.start, p.end - p.start)>>
    /\ ret' = [response |-> resp, rows |-> rows_of(resp)]
    /\ stored_before' = store
    /\ UNCHANGED <<store, alive, current, rows_per_batch, loaded, calls,
                   uncommitted>>

\* read(partition), iterated to the end; resp is the row source's answer.
read(i, p, resp) ==
    /\ alive[i]
    /\ call' = Call("read", i, p.start, p.end)
    /\ http' = <<read_request(p.start, rows_per_batch[i])>>
    /\ ret' = [response |-> resp, rows |-> rows_of(resp)]
    /\ stored_before' = store
    /\ UNCHANGED <<store, alive, current, rows_per_batch, loaded, calls,
                   uncommitted>>

----------------------------------------------------------------------------
(* databricks-api/api_handler.py : request, ApiSession.request, RepoHandler *)

MaxSegments == 4   \* most "/"-separated segments in a path handed to clone
MaxRepos   == 2    \* longest `repos` list the API answers with

\* A path is a string over the symbols "/", "Repos" (that literal) and "a".
\* Every string is the "/"-join of its segments: the paths handed to clone are
\* the joins of up to MaxSegments segments, each empty, "Repos" or "a".
Segments == {<<>>, <<"Repos">>, <<"a">>}

RECURSIVE join(_)
join(segs) ==
    IF Len(segs) = 1 THEN segs[1]
    ELSE segs[1] \o <<"/">> \o join(Tail(segs))

Paths == {join(segs) : segs \in SeqsUpTo(Segments, MaxSegments) \ {<<>>}}

EmptyDict == [k \in {} |-> ""]

\* dict.update
dict_update(d, other) ==
    [k \in DOMAIN d \cup DOMAIN other |-> IF k \in DOMAIN other THEN other[k] ELSE d[k]]

\* The repo objects of the repos API.
RepoObjects == {[id |-> "r1", branch |-> "main"], [id |-> "r2"]}

Statuses == {200, 400, 500}

\* An answer of the repos API: the status, and the JSON body of a 200:
\* for GET, {"repos": [...]} or a body without that key; for POST, a repo object.
RepoListResponses ==
    {[status |-> st, has_repos |-> h, repos |-> l, repo |-> EmptyDict] :
        st \in Statuses, h \in BOOLEAN, l \in SeqsUpTo(RepoObjects, MaxRepos)}
RepoCloneResponses ==
    {[status |-> 200, has_repos |-> FALSE, repos |-> <<>>, repo |-> o] : o \in RepoObjects}
    \cup {[status |-> st, has_repos |-> FALSE, repos |-> <<>>, repo |-> EmptyDict] :
             st \in Statuses \ {200}}
NoResponse == [status |-> 0, has_repos |-> FALSE, repos |-> <<>>, repo |-> EmptyDict]

RepoCall(op, path, resp) == [op |-> op, path |-> path, resp |-> resp]

\* request(method, url, **kwargs): what the wrapper raises for a status.
request(status) ==
    IF status < 400 THEN "none"
    ELSE IF status = 400 THEN "RuntimeError"
    ELSE "HTTPError"

\* ApiSession.request: the request as sent.
session_request(method, rel_url, payload) ==
    [method |-> method, rel_url |-> rel_url, payload |-> payload]

\* str.split('/')
RECURSIVE split(_)
split(p) ==
    IF p = <<>> THEN << <<>> >>
    ELSE LET rest == split(Tail(p))
         IN  IF Head(p) = "/"
             THEN << <<>> >> \o rest
             ELSE << <<Head(p)>> \o rest[1] >> \o Tail(rest)

\* get_repo taking the first match whenever there is one.
get_repo_first(path_prefix, resp) ==
    /\ repo_call' = RepoCall("get_repo", path_prefix, resp)
    /\ details_before' = details
    /\ repo_reqs' = <<session_request("get", "", path_prefix)>>
    /\ IF request(resp.status) # "none"
       THEN repo_exc' = request(resp.status) /\ UNCHANGED details
       ELSE IF ~resp.has_repos
       THEN repo_exc' = "ValueError" /\ UNCHANGED details
       ELSE IF Len(resp.repos) < 1
       THEN repo_exc' = "ValueError" /\ UNCHANGED details
       ELSE repo_exc' = "none" /\ details' = dict_update(details, resp.repos[1])

get_repo(path_prefix, resp) ==
    /\ repo_call' = RepoCall("get_repo", path_prefix, resp)
    /\ details_before' = details
    /\ repo_reqs' = <<session_request("get", "", path_prefix)>>
    /\ IF request(resp.status) # "none"
       THEN repo_exc' = request(resp.status) /\ UNCHANGED details
       ELSE IF ~resp.has_repos
       THEN repo_exc' = "ValueError" /\ UNCHANGED details
       ELSE IF Len(resp.repos) # 1
       THEN repo_exc' = "ValueError" /\ UNCHANGED details
       ELSE repo_exc' = "none" /\ details' = dict_update(details, resp.repos[1])

\* The two accepted shapes of clone's path, and the path sent for each;
\* <<>> stands for the ValueError branch.
path_clean(path) ==
    LET path_elements == split(path)
    IN  IF Len(path_elements) = 4
           /\ SubSeq(path_elements, 1, 2) = << <<>>, <<"Repos">> >>
        THEN path
        ELSE IF Len(path_elements) = 2
                /\ \A k \in 1..2 : Len(path_elements[k]) # 0
        THEN <<"/", "Repos", "/">> \o path
        ELSE <<>>

clone(path, resp) ==
    /\ repo_call' = RepoCall("clone", path, NoResponse)
    /\ details_before' = details
    /\ IF path_clean(path) = <<>>
       THEN /\ repo_exc' = "ValueError"
            /\ repo_reqs' = <<>>
            /\ UNCHANGED details
       ELSE /\ repo_reqs' = <<session_request("post", "", path_clean(path))>>
            /\ repo_exc' = request(resp.status)
            /\ IF request(resp.status) = "none"
               THEN details' = dict_update(details, resp.repo)
               ELSE UNCHANGED details

PathPrefixes == {<<"a">>}

----------------------------------------------------------------------------
(* databricks-api/api_handler.py : DbsqlHandler.list_query_history *)

MaxPages == 3      \* most pages the query-history API answers with
MaxRes   == 1      \* longest `res` list of one page

Tokens == {"t1", "t2"}
QueryRows == {"q1", "q2"}

\* **kwargs: whether any of FILTER_KEYS is given, and include_metrics
\* ("absent" when not given).
Kwargs == [filters : BOOLEAN, include_metrics : {"absent", "true", "false"}]

\* The body dict: filter_by present or not, include_metrics, page_token
\* present or not and its value.
Body(f, m, h, t) ==
    [filter_by |-> f, include_metrics |-> m, has_page_token |-> h, page_token |-> t]

\* One answer of the API: has_next_page, next_page_token (with has_next_page),
\* and `res`, present or not.
NextPages == [has_next_page : {TRUE}, next_page_token : Tokens,
              has_res : {TRUE}, res : SeqsUpTo(QueryRows, MaxRes)]
             \cup [has_next_page : {TRUE}, next_page_token : Tokens,
                   has_res : {FALSE}, res : {<<>>}]
LastPages == [has_next_page : {FALSE}, next_page_token : {""},
              has_res : {TRUE}, res : SeqsUpTo(QueryRows, MaxRes)]
             \cup [has_next_page : {FALSE}, next_page_token : {""},
                   has_res : {FALSE}, res : {<<>>}]

\* `if page_token:` -- page_token is the list `queries` until line 186 rebinds it.
truthy(tok) == IF tok.alias THEN queries # <<>> ELSE tok.tok # ""

\* The value of page_token put in the body.
token_value(tok) == IF tok.alias THEN "<list>" ELSE tok.tok

\* Lines 162-177: the body and the loop variables before the first iteration.
list_query_history_begin(kw) ==
    /\ sql_pc = "idle"
    /\ body' = Body(kw.filters,
                    IF kw.include_metrics = "absent" THEN TRUE
                    ELSE kw.include_metrics = "true",
                    FALSE, "")
    /\ has_next_page' = TRUE
    /\ page_token' = [alias |-> TRUE, tok |-> ""]
    /\ queries' = <<>>
    /\ sql_reqs' = <<>>
    /\ pages' = <<>>
    /\ sql_pc' = "loop"

\* The body as sent by one iteration (lines 179-181).
body_sent ==
    IF truthy(page_token)
    THEN [body EXCEPT !.filter_by = FALSE, !.has_page_token = TRUE,
                      !.page_token = token_value(page_token)]
    ELSE body

\* One iteration with `queries = rj['res']` for `queries += rj['res']`.
list_query_history_iterate_assign(status, page) ==
    /\ sql_pc = "loop"
    /\ has_next_page
    /\ body' = body_sent
    /\ sql_reqs' = Append(sql_reqs, body_sent)
    /\ IF request(status) # "none"
       THEN /\ sql_pc' = "raised"
            /\ UNCHANGED <<pages, has_next_page, page_token, queries>>
       ELSE /\ pages' = Append(pages, page)
            /\ has_next_page' = page.has_next_page
            /\ page_token' = IF page.has_next_page
                             THEN [alias |-> FALSE, tok |-> page.next_page_token]
                             ELSE page_token
            /\ queries' = IF page.has_res THEN page.res ELSE queries
            /\ sql_pc' = IF page.has_next_page THEN "loop" ELSE "done"

\* One iteration of the while loop (lines 178-190); the loop ends, and the
\* rows go to spark.createDataFrame, when has_next_page is false.
list_query_history_iterate(status, page) ==
    /\ sql_pc = "loop"
    /\ has_next_page
    /\ body' = body_sent
    /\ sql_reqs' = Append(sql_reqs, body_sent)
    /\ IF request(status) # "none"
       THEN /\ sql_pc' = "raised"
            /\ UNCHANGED <<pages, has_next_page, page_token, queries>>
       ELSE /\ pages' = Append(pages, page)
            /\ has_next_page' = page.has_next_page
            /\ page_token' = IF page.has_next_page
                             THEN [alias |-> FALSE, tok |-> page.next_page_token]
                             ELSE page_token
            /\ queries' = IF page.has_res THEN queries \o page.res ELSE queries
            /\ sql_pc' = IF page.has_next_page THEN "loop" ELSE "done"

Offsets == {[offset |-> n] : n \in 0..MaxOffset}
\* The partitions handed to read: start <= end.
Partitions == {p \in [start : 0..MaxOffset, end : 0..MaxOffset] : p.start <= p.end}

ConnInit ==
    /\ store \in Docs
    /\ alive = [i \in Insts |-> FALSE]
    /\ current = [i \in Insts |-> 0]
    /\ rows_per_batch = [i \in Insts |-> 0]
    /\ loaded = [i \in Insts |-> [present |-> FALSE, current |-> 0]]
    /\ calls = [i \in Insts |-> 0]
    /\ uncommitted = [i \in Insts |-> 0]
    /\ call = Call("none", 0, 0, 0)
    /\ ret = <<>>
    /\ http = <<>>
    /\ stored_before = store

HostIdle ==
    /\ hpc = "idle"
    /\ hstart = 0
    /\ hend = 0
    /\ hparts = <<>>

RepoIdle ==
    /\ details = EmptyDict
    /\ repo_call = RepoCall("none", <<>>, NoResponse)
    /\ repo_reqs = <<>>
    /\ repo_exc = "none"
    /\ details_before = EmptyDict

SqlIdle ==
    /\ pages = <<>>
    /\ sql_pc = "idle"
    /\ body = Body(FALSE, FALSE, FALSE, "")
    /\ has_next_page = FALSE
    /\ page_token = [alias |-> FALSE, tok |-> ""]
    /\ queries = <<>>
    /\ sql_reqs = <<>>

\* No connector instance, an empty progress document.
ConnIdle ==
    /\ store = [present |-> FALSE, current |-> 0]
    /\ alive = [i \in Insts |-> FALSE]
    /\ current = [i \in Insts |-> 0]
    /\ rows_per_batch = [i \in Insts |-> 0]
    /\ loaded = [i \in Insts |-> [present |-> FALSE, current |-> 0]]
    /\ calls = [i \in Insts |-> 0]
    /\ uncommitted = [i \in Insts |-> 0]
    /\ call = Call("none", 0, 0, 0)
    /\ ret = <<>>
    /\ http = <<>>
    /\ stored_before = store

\* The REST client before its first call.
InitRest ==
    /\ ConnIdle
    /\ HostIdle
    /\ RepoIdle
    /\ SqlIdle

----------------------------------------------------------------------------
(* One connector instance, called in any order. *)

Init ==
    /\ ConnInit
    /\ HostIdle
    /\ RepoIdle
    /\ SqlIdle

Next ==
    \/ \E opt \in Options : construct(1, opt) /\ UNCHANGED <<host_vars, repo_vars, sql_vars>>
    \/ initialOffset(1) /\ UNCHANGED <<host_vars, repo_vars, sql_vars>>
    \/ latestOffset(1) /\ UNCHANGED <<host_vars, repo_vars, sql_vars>>
    \/ \E s \in Offsets, e \in Offsets :
           partitions(1, s, e) /\ UNCHANGED <<host_vars, repo_vars, sql_vars>>
    \/ \E e \in Offsets : commit(1, e) /\ UNCHANGED <<host_vars, repo_vars, sql_vars>>
    \/ \E p \in Partitions, resp \in Responses :
           read(1, p, resp) /\ UNCHANGED <<host_vars, repo_vars, sql_vars>>

Spec == Init /\ [][Next]_vars

----------------------------------------------------------------------------
(* Properties of one connector instance (Spec). *)

\* The progress document's `current`, 0 when the field is absent.
CurrentOf(doc) == IF doc.present THEN doc.current ELSE 0

\* C1: the k-th latestOffset() of an instance built from a progress document
\* whose `current` is c (0 when absent) returns {offset: c + k * rows_per_batch},
\* whatever other calls came in between.
C1_LatestOffsetFixedStep ==
    call.op = "latestOffset" =>
        ret = [offset |-> CurrentOf(loaded[call.inst])
                          + calls[call.inst] * rows_per_batch[call.inst]]

\* The second latestOffset of an instance loaded from current = 2 with the
\* default batch size, after a commit: 22, not 20.
C1_Witness ==
    /\ call.op = "latestOffset"
    /\ calls[1] = 2
    /\ loaded[1] = [present |-> TRUE, current |-> 2]
    /\ rows_per_batch[1] = DefaultRowsPerBatch
    /\ store.current = 12
    /\ ret = [offset |-> 22]

\* C2: commit(end) issues exactly one PUT, with body {"current": <cursor>} for
\* the cursor at the moment of the call, whatever `end` is; the store then holds
\* that value and the cursor is unchanged.
C2_CommitPersistsCursor ==
    [][call'.op = "commit" =>
          /\ http' = <<[method |-> "PUT", target |-> "progress",
                        overwrite |-> TRUE, start |-> 0, limit |-> 0,
                        data |-> [current |-> current[call'.inst]]]>>
          /\ store' = [present |-> TRUE, current |-> current[call'.inst]]
          /\ current' = current]_vars

\* A commit whose argument differs from the cursor it persisted.
C2_Witness ==
    /\ call.op = "commit"
    /\ calls[1] = 2
    /\ call.end # current[1]
    /\ Len(http) = 1
    /\ http[1].data.current = current[1]
    /\ store.current = current[1]

C4_ReadOneFetchRowsInOrder ==
    [][call'.op = "read" =>
          /\ http' = <<[method |-> "GET", target |-> "api", overwrite |-> FALSE,
                        start |-> call'.start,
                        limit |-> rows_per_batch[call'.inst],
                        data |-> [current |-> 0]]>>
          /\ Len(ret'.rows) = Len(ret'.response)
          /\ \A k \in 1..Len(ret'.response) :
                 ret'.rows[k] = <<ret'.response[k].id, ret'.response[k].name,
                                  ret'.response[k].email, ret'.response[k].body>>
          /\ current' = current
          /\ store' = store]_vars

\* A read of partition (1, 2) with the default batch size whose response is
\* two elements in descending id order.
C4_Witness ==
    /\ call.op = "read"
    /\ call.start = 1
    /\ call.end = 2
    /\ rows_per_batch[1] = DefaultRowsPerBatch
    /\ http[1].limit = DefaultRowsPerBatch
    /\ Len(ret.response) = 2
    /\ ret.response[1].id = 2
    /\ ret.response[2].id = 1
    /\ ret.rows = << <<2, "n", "e", "b">>, <<1, "n", "e", "b">> >>

\* C5: partitions(start, end) with start.offset <= end.offset returns exactly
\* one partition, (start.offset, end.offset), and changes neither the cursor
\* nor the store.
C5_PartitionsSingleRange ==
    [][(call'.op = "partitions" /\ call'.start <= call'.end) =>
          /\ ret' = <<[start |-> call'.start, end |-> call'.end]>>
          /\ current' = current
          /\ store' = store]_vars

\* partitions({offset: 1}, {offset: 2}) after the cursor has moved.
C5_Witness ==
    /\ call.op = "partitions"
    /\ call.start = 1
    /\ call.end = 2
    /\ calls[1] = 1
    /\ Len(ret) = 1
    /\ ret[1].start = 1
    /\ ret[1].end = 2

----------------------------------------------------------------------------
(* Two connector instances built against the same progress document. *)

NextConc ==
    \/ \E i \in Insts, opt \in Options :
           construct(i, opt) /\ UNCHANGED <<host_vars, repo_vars, sql_vars>>
    \/ \E i \in Insts :
           latestOffset(i) /\ UNCHANGED <<host_vars, repo_vars, sql_vars>>
    \/ \E i \in Insts, e \in Offsets :
           commit(i, e) /\ UNCHANGED <<host_vars, repo_vars, sql_vars>>

SpecConc == Init /\ [][NextConc]_vars

\* C9: every commit of either instance overwrites the stored `current` with
\* that instance's own cursor, whatever is stored, and returns normally; the
\* stored value can therefore decrease (the witness).
C9_CommitOverwritesUnconditionally ==
    [][call'.op = "commit" =>
          /\ store' = [present |-> TRUE, current |-> current[call'.inst]]
          /\ http'[1].overwrite
          /\ ret' = <<>>]_vars

\* A lost update: both instances are alive, one has committed a value, and the
\* other's commit has just replaced it with a smaller one.
C9_Witness ==
    /\ call.op = "commit"
    /\ alive[1] /\ alive[2]
    /\ stored_before.present
    /\ store.current < stored_before.current
    /\ store.current = current[call.inst]
    /\ \E j \in Insts \ {call.inst} : stored_before.current = current[j]

----------------------------------------------------------------------------
(* The host runtime driving one instance: initialOffset() starts the first   *)
(* batch, each latestOffset() ends a batch, the batch is planned by          *)
(* partitions(start, end), read, committed, and its end starts the next.     *)

host_construct ==
    /\ hpc = "idle"
    /\ \E opt \in Options : construct(1, opt)
    /\ hpc' = "initial"
    /\ UNCHANGED <<hstart, hend, hparts>>

host_initial ==
    /\ hpc = "initial"
    /\ initialOffset(1)
    /\ hstart' = ret'.offset
    /\ hpc' = "latest"
    /\ UNCHANGED <<hend, hparts>>

host_latest ==
    /\ hpc = "latest"
    /\ latestOffset(1)
    /\ hend' = ret'.offset
    /\ hpc' = "plan"
    /\ UNCHANGED <<hstart, hparts>>

host_plan ==
    /\ hpc = "plan"
    /\ partitions(1, [offset |-> hstart], [offset |-> hend])
    /\ hparts' = ret'
    /\ hpc' = "read"
    /\ UNCHANGED <<hstart, hend>>

host_read ==
    /\ hpc = "read"
    /\ \E resp \in Responses : read(1, hparts[1], resp)
    /\ hpc' = "commit"
    /\ UNCHANGED <<hstart, hend, hparts>>

host_commit ==
    /\ hpc = "commit"
    /\ commit(1, [offset |-> hend])
    /\ hstart' = hend
    /\ hpc' = "latest"
    /\ UNCHANGED <<hend, hparts>>

NextHost ==
    \/ host_construct /\ UNCHANGED <<repo_vars, sql_vars>>
    \/ host_initial /\ UNCHANGED <<repo_vars, sql_vars>>
    \/ host_latest /\ UNCHANGED <<repo_vars, sql_vars>>
    \/ host_plan /\ UNCHANGED <<repo_vars, sql_vars>>
    \/ host_read /\ UNCHANGED <<repo_vars, sql_vars>>
    \/ host_commit /\ UNCHANGED <<repo_vars, sql_vars>>

SpecHost == Init /\ [][NextHost]_vars

\* C10: in a host-driven run every partition handed to read is rows_per_batch
\* wide, so the fetch (_start = start, _limit = rows_per_batch) asks for exactly
\* the offsets [start, end) of the batch, whatever `current` was loaded.
C10_EveryBatchFullyRequested ==
    (hpc = "commit" /\ call.op = "read") =>
        /\ call.end - call.start = rows_per_batch[1]
        /\ http[1].start .. (http[1].start + http[1].limit - 1)
               = call.start .. (call.end - 1)

----------------------------------------------------------------------------
(* One RepoHandler, get_repo and clone called in any order. *)

NextRepo ==
    \/ \E pp \in PathPrefixes, resp \in RepoListResponses :
           get_repo(pp, resp) /\ UNCHANGED <<conn_vars, host_vars, sql_vars>>
    \/ \E path \in Paths, resp \in RepoCloneResponses :
           clone(path, resp) /\ UNCHANGED <<conn_vars, host_vars, sql_vars>>

SpecRepo == InitRest /\ [][NextRepo]_vars

\* <folder>/<repo>: exactly one "/", with something on both sides of it.
IsRelativeForm(p) ==
    \E k \in 2..(Len(p) - 1) :
        /\ p[k] = "/"
        /\ \A j \in (1..Len(p)) \ {k} : p[j] # "/"

\* /Repos/<folder>/<repo>
IsAbsoluteForm(p) ==
    /\ Len(p) > 3
    /\ SubSeq(p, 1, 3) = <<"/", "Repos", "/">>
    /\ IsRelativeForm(SubSeq(p, 4, Len(p)))

\* C6: clone rejects every path of neither form with a ValueError, before any
\* request and with self.details unchanged; a <folder>/<repo> path is sent
\* prefixed with /Repos/, a /Repos/<folder>/<repo> path unchanged.
C6_CloneValidatesPath ==
    repo_call.op = "clone" =>
        /\ (~IsAbsoluteForm(repo_call.path) /\ ~IsRelativeForm(repo_call.path)) =>
               (repo_exc = "ValueError" /\ repo_reqs = <<>> /\ details = details_before)
        /\ IsRelativeForm(repo_call.path) =>
               (Len(repo_reqs) = 1
                /\ repo_reqs[1].payload = <<"/", "Repos", "/">> \o repo_call.path)
        /\ IsAbsoluteForm(repo_call.path) =>
               (Len(repo_reqs) = 1 /\ repo_reqs[1].payload = repo_call.path)

\* C7: get_repo updates self.details, with the matching repo, only when the
\* answer holds exactly one match; with no `repos` key, an empty list or two or
\* more matches it raises ValueError and leaves self.details unchanged.
C7_GetRepoSingleMatch ==
    repo_call.op = "get_repo" =>
        LET resp == repo_call.resp
            matches == IF resp.has_repos THEN Len(resp.repos) ELSE 0
        IN  /\ (resp.status = 200 /\ matches = 1) =>
                   /\ repo_exc = "none"
                   /\ \A k \in DOMAIN resp.repos[1] : details[k] = resp.repos[1][k]
                   /\ \A k \in DOMAIN details_before \ DOMAIN resp.repos[1] :
                          details[k] = details_before[k]
                   /\ DOMAIN details = DOMAIN details_before \cup DOMAIN resp.repos[1]
            /\ (resp.status = 200 /\ matches # 1) =>
                   (repo_exc = "ValueError" /\ details = details_before)
            /\ repo_exc # "none" => details = details_before

\* Two matches while self.details already holds a repo: ValueError, unchanged.
C7_Witness ==
    /\ repo_call.op = "get_repo"
    /\ repo_call.resp.status = 200
    /\ repo_call.resp.has_repos
    /\ Len(repo_call.resp.repos) = 2
    /\ repo_call.resp.repos[1].id = "r2"
    /\ repo_exc = "ValueError"
    /\ DOMAIN details = {"id", "branch"}
    /\ details.id = "r1"
    /\ details = details_before

----------------------------------------------------------------------------
(* One list_query_history call against an API that answers with at most     *)
(* MaxPages pages.                                                          *)

NextSql ==
    \/ \E kw \in Kwargs :
           list_query_history_begin(kw) /\ UNCHANGED <<conn_vars, host_vars, repo_vars>>
    \/ \E status \in Statuses, page \in NextPages :
           /\ Len(pages) + 1 < MaxPages
           /\ list_query_history_iterate(status, page)
           /\ UNCHANGED <<conn_vars, host_vars, repo_vars>>
    \/ \E status \in Statuses, page \in LastPages :
           /\ list_query_history_iterate(status, page)
           /\ UNCHANGED <<conn_vars, host_vars, repo_vars>>

SpecSql == InitRest /\ [][NextSql]_vars

RECURSIVE ConcatRes(_)
ConcatRes(ps) ==
    IF ps = <<>> THEN <<>>
    ELSE (IF Head(ps).has_res THEN Head(ps).res ELSE <<>>) \o ConcatRes(Tail(ps))

\* C8: against an API that answered N pages, the last one the first with
\* has_next_page false, list_query_history has sent exactly N requests, the
\* first without page_token and each later one with the next_page_token of the
\* answer before it, and its rows are the `res` lists of the N pages in page
\* order, a page without `res` adding nothing.
C8_FollowsPageTokens ==
    sql_pc = "done" =>
        LET N == Len(pages)
        IN  /\ N >= 1
            /\ Len(sql_reqs) = N
            /\ ~pages[N].has_next_page
            /\ \A k \in 1..(N - 1) : pages[k].has_next_page
            /\ ~sql_reqs[1].has_page_token
            /\ \A k \in 2..N :
                   /\ sql_reqs[k].has_page_token
                   /\ sql_reqs[k].page_token = pages[k - 1].next_page_token
            /\ queries = ConcatRes(pages)

\* Three pages, two different tokens, the middle page without `res`.
C8_Witness ==
    /\ sql_pc = "done"
    /\ Len(pages) = 3
    /\ pages[1].next_page_token = "t2"
    /\ pages[2].next_page_token = "t1"
    /\ pages[1].res = <<"q2">>
    /\ ~pages[2].has_res
    /\ pages[3].res = <<"q1">>
    /\ Len(sql_reqs) = 3
    /\ sql_reqs[3].page_token = "t1"
    /\ queries = <<"q2", "q1">>

====
